---------------------------- MODULE Spec2Model ----------------------------
(***************************************************************************)
(* Document Q&A service: the Question lifecycle, the registry of           *)
(* background tasks (app/routers.py) and the upload-file text extraction.  *)
(*                                                                         *)
(* Granularity.  Everything runs on one asyncio event loop, so code        *)
(* between two awaits is atomic.  An action is one such stretch: it        *)
(* starts where an awaited database call completes and runs to the next    *)
(* await that touches shared state.  Awaits with no effect on the store    *)
(* or the registry that are directly followed by such a call               *)
(* (asyncio.sleep, rollback) are merged with it.                           *)
(*                                                                         *)
(* Environment.  The background unit's awaited database calls (execute,    *)
(* commit) may raise; request handlers raise only where the program's own  *)
(* state makes them (refresh of a row that was deleted meanwhile).         *)
(* Leaving an `async with` session block awaits session.close(): that is   *)
(* a suspension point, and it does not raise.  Text is a sequence of       *)
(* Unicode code points.  Identifiers come from the autoincrement primary   *)
(* key and are never handed out twice.  A request's arrival has no effect  *)
(* of its own: a handler's first action is its arrival together with its   *)
(* first lookup.  A task that has ended is dropped from `tasks`, as the     *)
(* event loop drops it.                                                    *)
(***************************************************************************)
EXTENDS Integers, Sequences, FiniteSets, Bags, TLC

VARIABLES
    documents,          \* Document rows: id -> [title, content]
    nextDocumentId,     \* next value of documents.id (autoincrement)
    questions,          \* Question rows: id -> [document_id, question, answer, status]
    nextQuestionId,     \* next value of questions.id (autoincrement)
    background_tasks,   \* routers.background_tasks: question id -> task
    tasks,              \* the asyncio tasks not yet ended: handle -> unit state
    requests,           \* the handlers suspended at an await (a bag)
    response,           \* the HTTP response the last step sent, if any
    deleted,            \* history: ids whose delete_question committed
    upload              \* the upload-file request: its input and position

vars == <<documents, nextDocumentId, questions, nextQuestionId,
          background_tasks, tasks, requests, response, deleted, upload>>

----------------------------------------------------------------------------
(* Bounds of the model *)

MaxDocuments == 1
MaxQuestions == 2
MaxRequests == 2
MaxFileLen == 4

\* Identifiers a client may name.  A Question id is unknown to the store
\* until its row is created and again once it is deleted; the last Document
\* id is never created.
DocumentIds == 1..(MaxDocuments + 1)
QuestionIds == 1..MaxQuestions

\* "Q" and "Q?"
QuestionTexts == {<<81, 63>>}
\* "T"
Titles == {<<84>>}
\* "C"
Contents == {<<67>>}
\* "a.txt", "a.pdf", "a.docx", "a.bin"
Filenames == {<<97, 46, 116, 120, 116>>, <<97, 46, 112, 100, 102>>,
              <<97, 46, 100, 111, 99, 120>>, <<97, 46, 98, 105, 110>>}
\* Bytes of an uploaded file: "\n", " ", "A", and 0xC2 0xA0, the UTF-8
\* encoding of U+00A0; 0xA0 alone and 0xC2 before anything else are invalid.
FileBytes == {10, 32, 65, 194, 160}
FileContents == UNION {[1..n -> FileBytes] : n \in 0..MaxFileLen}
\* What the PDF and DOCX libraries may extract: "", "\n", "A\n".
LibraryTexts == {<<>>, <<10>>, <<65, 10>>}

----------------------------------------------------------------------------
(* Values *)

PENDING == "pending"
ANSWERED == "answered"
ERROR == "error"

\* Optional[str]: None is the empty tuple, a present value is a 1-tuple.
None == <<>>
Some(x) == <<x>>

HTTP_200_OK == 200
HTTP_201_CREATED == 201
HTTP_204_NO_CONTENT == 204
HTTP_400_BAD_REQUEST == 400
HTTP_404_NOT_FOUND == 404
HTTP_500_INTERNAL_SERVER_ERROR == 500

NoResponse == [op |-> "none", code |-> 0, detail |-> 0]

NoUpload == [pc |-> "none", title |-> <<>>, filename |-> <<>>,
             file_content |-> <<>>, document_id |-> 0]

\* A response: the operation, the status code and, for a 404, the identifier
\* its detail message names.
Respond(op, code, detail) == [op |-> op, code |-> code, detail |-> detail]

----------------------------------------------------------------------------
(* The store *)

DocumentExistsUnchecked(d) == TRUE

\* select(Document).where(Document.id == document_id) finds a row.
DocumentExists(d) == d \in DOMAIN documents

QuestionExists(q) == q \in DOMAIN questions

\* Question(document_id=..., question=..., status=PENDING); answer is NULL.
NewQuestion(d, text) ==
    [document_id |-> d, question |-> text, answer |-> None, status |-> PENDING]

NewQuestionIdReused ==
    IF DOMAIN questions = {} THEN 1
    ELSE (CHOOSE m \in DOMAIN questions : \A k \in DOMAIN questions : k <= m) + 1

\* The id the store gives a new Question row.
NewQuestionId == nextQuestionId

FlushUpsert(q, row) == [ok |-> TRUE, store |-> (q :> row) @@ questions]

\* The ORM's flush of a loaded, modified row at commit: an UPDATE by primary
\* key.  It matches the row, or the row is gone and the commit raises.
Flush(q, row) ==
    IF q \in DOMAIN questions
    THEN [ok |-> TRUE, store |-> [questions EXCEPT ![q] = row]]
    ELSE [ok |-> FALSE, store |-> questions]

----------------------------------------------------------------------------
(* process_question_async *)

AnswerPrefix ==
    <<84, 104, 105, 115, 32, 105, 115, 32, 97, 32, 103, 101, 110, 101, 114,
      97, 116, 101, 100, 32, 97, 110, 115, 119, 101, 114, 32, 116, 111, 32,
      121, 111, 117, 114, 32, 113, 117, 101, 115, 116, 105, 111, 110, 58, 32>>

GenerateAnswerNoText(question_text) == AnswerPrefix

\* answer = f"This is a generated answer to your question: {question_text}"
GenerateAnswer(question_text) == AnswerPrefix \o question_text

SetStatusOnly(row, answer) == [row EXCEPT !.status = ANSWERED]

\* question.answer = answer; question.status = ANSWERED
SetAnswered(row, answer) ==
    [row EXCEPT !.answer = Some(answer), !.status = ANSWERED]

SetErrorNothing(row) == row

\* question.status = ERROR
SetError(row) == [row EXCEPT !.status = ERROR]

AfterCommitRaises == "error_select"

\* Where the unit goes once `await db.commit()` has returned: out of the
\* inner try and the session block, to the registry removal.
AfterCommit == "close"

NewTask(q, text) ==
    [question_id |-> q, question_text |-> text, pc |-> "sleep",
     failed |-> FALSE, row |-> None]

SetTask(t, pc, failed, row) ==
    [tasks EXCEPT ![t].pc = pc, ![t].failed = failed, ![t].row = row]

\* The task has ended, normally or by CancelledError.
EndTask(t) == [k \in DOMAIN tasks \ {t} |-> tasks[k]]

UnregisterNothing(q) == background_tasks

\* del background_tasks[question_id]
Unregister(q) == [k \in DOMAIN background_tasks \ {q} |-> background_tasks[k]]

\* Lines 41-55 and 60-65: the delay ends, the unit opens a session and the
\* select completes.  The row is loaded, modified and a commit is issued; or
\* it is gone and the unit leaves the session block; or execute raises, the
\* inner handler rolls back and re-raises into the outer handler.
UnitSelect(t) ==
    /\ tasks[t].pc = "sleep"
    /\ LET q == tasks[t].question_id IN
       \/ /\ QuestionExists(q)
          /\ tasks' = SetTask(t, "commit", FALSE,
                 Some(SetAnswered(questions[q], GenerateAnswer(tasks[t].question_text))))
       \/ /\ ~QuestionExists(q)
          /\ tasks' = SetTask(t, "close", FALSE, None)
       \/ tasks' = SetTask(t, "error_select", TRUE, None)
    /\ UNCHANGED <<documents, nextDocumentId, questions, nextQuestionId,
                   background_tasks, requests, deleted, upload>>
    /\ response' = NoResponse

\* Lines 58-65: `await db.commit()` completes.
UnitCommit(t) ==
    /\ tasks[t].pc = "commit"
    /\ LET q == tasks[t].question_id
           f == Flush(q, tasks[t].row[1]) IN
       \/ /\ f.ok
          /\ questions' = f.store
          /\ tasks' = SetTask(t, AfterCommit, FALSE, None)
       \/ /\ ~f.ok
          /\ questions' = f.store
          /\ tasks' = SetTask(t, "error_select", TRUE, None)
       \/ /\ UNCHANGED questions
          /\ tasks' = SetTask(t, "error_select", TRUE, None)
    /\ UNCHANGED <<documents, nextDocumentId, nextQuestionId,
                   background_tasks, requests, deleted, upload>>
    /\ response' = NoResponse

\* Lines 67-69 and 88-90: the session has closed (and, after a failed second
\* pass, the failure has been logged); the entry is removed and the unit ends.
UnitClose(t) ==
    /\ tasks[t].pc \in {"close", "error_close", "error_logged"}
    /\ LET q == tasks[t].question_id IN
       background_tasks' =
           IF q \in DOMAIN background_tasks THEN Unregister(q) ELSE background_tasks
    /\ tasks' = EndTask(t)
    /\ UNCHANGED <<documents, nextDocumentId, questions, nextQuestionId,
                   requests, deleted, upload>>
    /\ response' = NoResponse

\* Lines 71-86: the outer handler's select completes.  An exception here is
\* caught by the handler's own try and only logged (line 86).
UnitErrorSelect(t) ==
    /\ tasks[t].pc = "error_select"
    /\ LET q == tasks[t].question_id IN
       \/ /\ QuestionExists(q)
          /\ tasks' = SetTask(t, "error_commit", TRUE, Some(SetError(questions[q])))
       \/ /\ ~QuestionExists(q)
          /\ tasks' = SetTask(t, "error_close", TRUE, None)
       \/ tasks' = SetTask(t, "error_logged", TRUE, None)
    /\ UNCHANGED <<documents, nextDocumentId, questions, nextQuestionId,
                   background_tasks, requests, deleted, upload>>
    /\ response' = NoResponse

\* Lines 84-86: the second pass's commit completes; or it raises (the row is
\* gone, or the database fails) and the exception is caught and logged.
UnitErrorCommit(t) ==
    /\ tasks[t].pc = "error_commit"
    /\ LET q == tasks[t].question_id
           f == Flush(q, tasks[t].row[1]) IN
       \/ /\ f.ok
          /\ questions' = f.store
          /\ tasks' = SetTask(t, "error_close", TRUE, None)
       \/ /\ ~f.ok
          /\ questions' = f.store
          /\ tasks' = SetTask(t, "error_logged", TRUE, None)
       \/ /\ UNCHANGED questions
          /\ tasks' = SetTask(t, "error_logged", TRUE, None)
    /\ UNCHANGED <<documents, nextDocumentId, nextQuestionId,
                   background_tasks, requests, deleted, upload>>
    /\ response' = NoResponse

----------------------------------------------------------------------------
(* Request handlers *)

InFlight == BagToSet(requests)

\* The request `req` takes a step and becomes `next`.
Advance(req, next) == (requests (-) SetToBag({req})) (+) SetToBag({next})

\* The request `req` is answered and leaves.
Finish(req) == requests (-) SetToBag({req})

SubmitRequest(pc, d, q, text) ==
    [op |-> "submit", pc |-> pc, document_id |-> d, question_id |-> q,
     text |-> text, cancelled |-> "none"]

\* `cancelled` records what lines 320-323 did: "delay" when they cancelled a
\* unit that was still in its delay, "none" otherwise.
DeleteRequest(pc, q, cancelled) ==
    [op |-> "delete", pc |-> pc, document_id |-> 0, question_id |-> q,
     text |-> <<>>, cancelled |-> cancelled]

\* Lines 169-196: POST /documents/{document_id}/question.  The Document
\* lookup answers 404; or the Question is built and `await db.commit()`
\* inserts the row, and a refresh is issued.  (No operation removes a
\* Document, so the lookup's answer still holds when the commit runs.)
SubmitInsert(d, text) ==
    /\ IF DocumentExists(d)
       THEN /\ BagCardinality(requests) < MaxRequests
            /\ nextQuestionId <= MaxQuestions
            /\ LET q == NewQuestionId IN
               /\ questions' = (q :> NewQuestion(d, text)) @@ questions
               /\ requests' = requests (+) SetToBag({SubmitRequest("refresh", d, q, text)})
            /\ nextQuestionId' = nextQuestionId + 1
            /\ response' = NoResponse
       ELSE /\ UNCHANGED <<requests, questions, nextQuestionId>>
            /\ response' = Respond("submit", HTTP_404_NOT_FOUND, d)
    /\ UNCHANGED <<documents, nextDocumentId, background_tasks, tasks,
                   deleted, upload>>

RegisterNothing(q, t) == background_tasks

\* background_tasks[question.id] = task
Register(q, t) == (q :> t) @@ background_tasks

\* A handle for a new task object: the Question's id and the first index
\* that no live task and no registry entry for that id holds.
NewTaskHandle(q) ==
    LET used == DOMAIN tasks \cup {background_tasks[k] : k \in DOMAIN background_tasks}
    IN  CHOOSE h \in {<<q, n>> : n \in 1..(Cardinality(used) + 1)} :
            h \notin used /\ \A g \in 1..(h[2] - 1) : <<q, g>> \in used

\* Lines 196-220: the refresh completes.  The row is still there: the task
\* is created and registered and the Question returned.  Or it was deleted
\* meanwhile: refresh raises, the handler rolls back and answers 500.
SubmitRefresh(req) ==
    /\ req.op = "submit"
    /\ req.pc = "refresh"
    /\ LET q == req.question_id
           t == NewTaskHandle(q) IN
       IF QuestionExists(q)
       THEN /\ tasks' = (t :> NewTask(q, req.text)) @@ tasks
            /\ background_tasks' = Register(q, t)
            /\ response' = Respond("submit", HTTP_201_CREATED, 0)
       ELSE /\ response' = Respond("submit", HTTP_500_INTERNAL_SERVER_ERROR, 0)
            /\ UNCHANGED <<tasks, background_tasks>>
    /\ requests' = Finish(req)
    /\ UNCHANGED <<documents, nextDocumentId, questions, nextQuestionId,
                   deleted, upload>>

CancelCaught(t) ==
    IF t \in DOMAIN tasks THEN SetTask(t, "error_select", TRUE, None) ELSE tasks

\* task.cancel(): CancelledError is no Exception, so neither handler of the
\* unit catches it and the unit runs no further statement.
Cancel(t) == IF t \in DOMAIN tasks THEN EndTask(t) ELSE tasks

\* Where the unit registered for q stands when delete_question cancels it.
CancelledAt(q) ==
    IF q \in DOMAIN background_tasks
          /\ background_tasks[q] \in DOMAIN tasks
          /\ tasks[background_tasks[q]].pc = "sleep" THEN "delay"
    ELSE "none"

DeleteLookupCancelsFirst(q) ==
    /\ IF q \in DOMAIN background_tasks
       THEN /\ tasks' = Cancel(background_tasks[q])
            /\ background_tasks' = Unregister(q)
       ELSE UNCHANGED <<tasks, background_tasks>>
    /\ IF QuestionExists(q)
       THEN /\ BagCardinality(requests) < MaxRequests
            /\ requests' = requests (+) SetToBag({DeleteRequest("delete", q, CancelledAt(q))})
            /\ response' = NoResponse
       ELSE /\ UNCHANGED requests
            /\ response' = Respond("delete", HTTP_404_NOT_FOUND, q)
    /\ UNCHANGED <<documents, nextDocumentId, questions, nextQuestionId,
                   deleted, upload>>

\* Lines 302-326: DELETE /questions/{question_id}; the Question lookup
\* completes.  404, or the registered task is cancelled and unregistered and
\* the DELETE is issued.
DeleteLookup(q) ==
    /\ IF QuestionExists(q)
       THEN /\ BagCardinality(requests) < MaxRequests
            /\ IF q \in DOMAIN background_tasks
               THEN /\ tasks' = Cancel(background_tasks[q])
                    /\ background_tasks' = Unregister(q)
               ELSE UNCHANGED <<tasks, background_tasks>>
            /\ requests' = requests (+) SetToBag({DeleteRequest("delete", q, CancelledAt(q))})
            /\ response' = NoResponse
       ELSE /\ response' = Respond("delete", HTTP_404_NOT_FOUND, q)
            /\ UNCHANGED <<tasks, background_tasks, requests>>
    /\ UNCHANGED <<documents, nextDocumentId, questions, nextQuestionId,
                   deleted, upload>>

\* Lines 326-328: the DELETE and its commit complete; 204.
DeleteCommit(req) ==
    /\ req.op = "delete"
    /\ req.pc = "delete"
    /\ LET q == req.question_id IN
       /\ questions' = [k \in DOMAIN questions \ {q} |-> questions[k]]
       /\ deleted' = deleted \cup {q}
       /\ response' = Respond("delete", HTTP_204_NO_CONTENT, 0)
    /\ requests' = Finish(req)
    /\ UNCHANGED <<documents, nextDocumentId, nextQuestionId,
                   background_tasks, tasks, upload>>

\* Lines 269-294: what get_question answers in the current state (it reads
\* the row and changes nothing).
GetQuestionCode(q) ==
    IF QuestionExists(q) THEN HTTP_200_OK ELSE HTTP_404_NOT_FOUND

\* Lines 100-119: upload_document; the insert is its one effect.
UploadDocument(title, content) ==
    /\ nextDocumentId <= MaxDocuments
    /\ documents' = (nextDocumentId :> [title |-> title, content |-> content])
                        @@ documents
    /\ nextDocumentId' = nextDocumentId + 1
    /\ response' = Respond("upload", HTTP_201_CREATED, 0)
    /\ UNCHANGED <<questions, nextQuestionId, background_tasks, tasks,
                   requests, deleted, upload>>

----------------------------------------------------------------------------
(* upload_complex_document *)

\* str.endswith
EndsWith(s, suffix) ==
    /\ Len(s) >= Len(suffix)
    /\ SubSeq(s, Len(s) - Len(suffix) + 1, Len(s)) = suffix

DotPdf == <<46, 112, 100, 102>>
DotDocx == <<46, 100, 111, 99, 120>>
DotTxt == <<46, 116, 120, 116>>

IsContinuation(b) == b >= 128 /\ b <= 191

\* The length of the well-formed UTF-8 sequence at the head of b, 0 if none.
Utf8SeqLen(b) ==
    LET n == Len(b)
        b1 == b[1]
        cont(i) == i <= n /\ IsContinuation(b[i])
    IN  IF b1 <= 127 THEN 1
        ELSE IF b1 >= 194 /\ b1 <= 223 /\ cont(2) THEN 2
        ELSE IF b1 = 224 /\ n >= 2 /\ b[2] >= 160 /\ b[2] <= 191 /\ cont(3) THEN 3
        ELSE IF b1 = 237 /\ n >= 2 /\ b[2] >= 128 /\ b[2] <= 159 /\ cont(3) THEN 3
        ELSE IF b1 >= 225 /\ b1 <= 239 /\ b1 # 237 /\ cont(2) /\ cont(3) THEN 3
        ELSE IF b1 = 240 /\ n >= 2 /\ b[2] >= 144 /\ b[2] <= 191 /\ cont(3) /\ cont(4)
             THEN 4
        ELSE IF b1 >= 241 /\ b1 <= 243 /\ cont(2) /\ cont(3) /\ cont(4) THEN 4
        ELSE IF b1 = 244 /\ n >= 2 /\ b[2] >= 128 /\ b[2] <= 143 /\ cont(3) /\ cont(4)
             THEN 4
        ELSE 0

\* The code point a well-formed sequence of k bytes encodes.
Utf8CodePoint(b, k) ==
    IF k = 1 THEN b[1]
    ELSE IF k = 2 THEN (b[1] - 192) * 64 + (b[2] - 128)
    ELSE IF k = 3 THEN (b[1] - 224) * 4096 + (b[2] - 128) * 64 + (b[3] - 128)
    ELSE (b[1] - 240) * 262144 + (b[2] - 128) * 4096 + (b[3] - 128) * 64
             + (b[4] - 128)

\* bytes.decode('utf-8'): the text, or ok = FALSE for UnicodeDecodeError.
RECURSIVE Utf8Decode(_)
Utf8Decode(b) ==
    IF b = <<>> THEN [ok |-> TRUE, text |-> <<>>]
    ELSE LET k == Utf8SeqLen(b) IN
         IF k = 0 THEN [ok |-> FALSE, text |-> <<>>]
         ELSE LET rest == Utf8Decode(SubSeq(b, k + 1, Len(b))) IN
              [ok |-> rest.ok,
               text |-> IF rest.ok THEN <<Utf8CodePoint(b, k)>> \o rest.text
                        ELSE <<>>]

\* str.isspace() of one character.
IsSpace(c) ==
    \/ c >= 9 /\ c <= 13
    \/ c >= 28 /\ c <= 32
    \/ c \in {133, 160, 5760, 8232, 8233, 8239, 8287, 12288}
    \/ c >= 8192 /\ c <= 8202

RECURSIVE LStrip(_)
LStrip(text) ==
    IF text # <<>> /\ IsSpace(Head(text)) THEN LStrip(Tail(text)) ELSE text

RECURSIVE RStrip(_)
RStrip(text) ==
    IF text # <<>> /\ IsSpace(text[Len(text)])
    THEN RStrip(SubSeq(text, 1, Len(text) - 1))
    ELSE text

StripLeftOnly(text) == LStrip(text)

\* str.strip()
Strip(text) == RStrip(LStrip(text))

\* Lines 419-443: what the handler extracts from the file, by its name.
\* Each element is an outcome: the text, an exception (500), or the 400 for
\* an unsupported type.
Extractions(filename, file_content) ==
    IF EndsWith(filename, DotPdf) \/ EndsWith(filename, DotDocx)
    THEN {[code |-> 0, text |-> t] : t \in LibraryTexts}
             \cup {[code |-> HTTP_500_INTERNAL_SERVER_ERROR, text |-> <<>>]}
    ELSE IF EndsWith(filename, DotTxt)
    THEN LET d == Utf8Decode(file_content) IN
         IF d.ok THEN {[code |-> 0, text |-> d.text]}
         ELSE {[code |-> HTTP_500_INTERNAL_SERVER_ERROR, text |-> <<>>]}
    ELSE {[code |-> HTTP_400_BAD_REQUEST, text |-> <<>>]}

\* Lines 411-470: upload_complex_document.
UploadComplexDocument ==
    /\ upload.pc = "received"
    /\ \E e \in Extractions(upload.filename, upload.file_content) :
          IF e.code # 0
          THEN /\ response' = Respond("upload_file", e.code, 0)
               /\ upload' = [upload EXCEPT !.pc = "done"]
               /\ UNCHANGED <<documents, nextDocumentId>>
          ELSE IF Strip(e.text) = <<>>
          THEN /\ response' = Respond("upload_file", HTTP_400_BAD_REQUEST, 0)
               /\ upload' = [upload EXCEPT !.pc = "done"]
               /\ UNCHANGED <<documents, nextDocumentId>>
          ELSE /\ documents' = (nextDocumentId :>
                                   [title |-> upload.title, content |-> Strip(e.text)])
                                   @@ documents
               /\ nextDocumentId' = nextDocumentId + 1
               /\ response' = Respond("upload_file", HTTP_201_CREATED, 0)
               /\ upload' = [upload EXCEPT !.pc = "done",
                                           !.document_id = nextDocumentId]
    /\ UNCHANGED <<questions, nextQuestionId, background_tasks, tasks,
                   requests, deleted>>

----------------------------------------------------------------------------
(* The service *)

Init ==
    /\ documents = <<>>
    /\ nextDocumentId = 1
    /\ questions = <<>>
    /\ nextQuestionId = 1
    /\ background_tasks = <<>>
    /\ tasks = <<>>
    /\ requests = EmptyBag
    /\ response = NoResponse
    /\ deleted = {}
    /\ upload = NoUpload

Next ==
    \/ \E title \in Titles, content \in Contents : UploadDocument(title, content)
    \/ \E d \in DocumentIds, text \in QuestionTexts : SubmitInsert(d, text)
    \/ \E req \in InFlight : SubmitRefresh(req)
    \/ \E q \in QuestionIds : DeleteLookup(q)
    \/ \E req \in InFlight : DeleteCommit(req)
    \/ \E t \in DOMAIN tasks : UnitSelect(t)
    \/ \E t \in DOMAIN tasks : UnitCommit(t)
    \/ \E t \in DOMAIN tasks : UnitClose(t)
    \/ \E t \in DOMAIN tasks : UnitErrorSelect(t)
    \/ \E t \in DOMAIN tasks : UnitErrorCommit(t)

Spec == Init /\ [][Next]_vars

\* One upload-file request, over every file name and content in the bounds.
InitUpload ==
    /\ documents = <<>>
    /\ nextDocumentId = 1
    /\ questions = <<>>
    /\ nextQuestionId = 1
    /\ background_tasks = <<>>
    /\ tasks = <<>>
    /\ requests = EmptyBag
    /\ response = NoResponse
    /\ deleted = {}
    /\ upload \in [pc : {"received"}, title : Titles, filename : Filenames,
                   file_content : FileContents, document_id : {0}]

NextUpload == UploadComplexDocument

SpecUpload == InitUpload /\ [][NextUpload]_vars

----------------------------------------------------------------------------
(* Properties *)

\* The live background units of Question q.
UnitsOf(q) == {t \in DOMAIN tasks : tasks[t].question_id = q}

\* The requests that took their last step in this transition.
Finished(req) == CopiesIn(req, requests') < CopiesIn(req, requests)

\* C1: a Question's status, once ANSWERED or ERROR, is the same in every later
\* state in which the row exists: no step takes ANSWERED to ERROR, ERROR to
\* ANSWERED, or either back to PENDING, so the status leaves PENDING at most
\* once.
C1_TerminalStatusIsFinal ==
    [][\A q \in DOMAIN questions :
          (questions[q].status # PENDING /\ q \in DOMAIN questions')
              => questions'[q].status = questions[q].status]_vars

\* One Question ended ANSWERED and another ended ERROR, both units gone.
C1_Witness ==
    \E q1 \in DOMAIN questions, q2 \in DOMAIN questions :
        /\ questions[q1].status = ANSWERED
        /\ questions[q2].status = ERROR
        /\ UnitsOf(q1) = {} /\ UnitsOf(q2) = {}

\* C2: every stored Question has a status in {PENDING, ANSWERED, ERROR}; an
\* ANSWERED Question has an answer and a PENDING Question has none.
C2_StatusAndAnswer ==
    \A q \in DOMAIN questions :
        /\ questions[q].status \in {PENDING, ANSWERED, ERROR}
        /\ questions[q].status = ANSWERED => questions[q].answer # None
        /\ questions[q].status = PENDING => questions[q].answer = None

\* An ANSWERED Question with its answer beside a PENDING one without.
C2_Witness ==
    \E q1 \in DOMAIN questions, q2 \in DOMAIN questions :
        /\ questions[q1].status = ANSWERED /\ questions[q1].answer # None
        /\ questions[q2].status = PENDING /\ questions[q2].answer = None

\* C3: when a background unit ends by running to its end (not cancelled)
\* with no database failure and its Question still exists, the Question is
\* ANSWERED and its answer is "This is a generated answer to your question: "
\* followed by the Question's text.
C3_CompletedUnitAnswers ==
    [][\A t \in DOMAIN tasks :
          LET q == tasks[t].question_id IN
          (/\ t \notin DOMAIN tasks'
           /\ tasks[t].pc \in {"close", "error_close"}
           /\ ~tasks[t].failed
           /\ q \in DOMAIN questions')
              => /\ questions'[q].status = ANSWERED
                 /\ questions'[q].answer = Some(AnswerPrefix \o questions'[q].question)]_vars

\* A unit has run to its end and left its Question ANSWERED with that answer.
C3_Witness ==
    \E q \in DOMAIN questions :
        /\ UnitsOf(q) = {}
        /\ q \notin DOMAIN background_tasks
        /\ questions[q].status = ANSWERED
        /\ questions[q].answer = Some(AnswerPrefix \o questions[q].question)

C6_SubmitUnknownDocument ==
    [][/\ \A q \in DOMAIN questions' \ DOMAIN questions :
              questions'[q].document_id \in DOMAIN documents
       /\ (response' # response /\ response'.op = "submit"
              /\ response'.code = HTTP_404_NOT_FOUND)
              => /\ response'.detail \notin DOMAIN documents
                 /\ UNCHANGED <<documents, nextDocumentId, questions,
                                nextQuestionId, background_tasks, tasks,
                                requests>>]_vars

\* A 404 for a submit, sent while Questions and units exist.
C6_Witness ==
    /\ response.op = "submit"
    /\ response.code = HTTP_404_NOT_FOUND
    /\ response.detail \notin DOMAIN documents
    /\ DOMAIN questions # {}
    /\ DOMAIN tasks # {}

\* C7: in the state a successful submit_question returns in (201), the new
\* Question exists, is PENDING with no answer, refers to the existing
\* Document it was submitted against, and a unit for it is registered under
\* its id and has not run yet.
C7_SubmitReturnsPending ==
    [][\A req \in BagToSet(requests) :
          (/\ req.op = "submit"
           /\ Finished(req)
           /\ response'.code = HTTP_201_CREATED)
              => LET q == req.question_id IN
                 /\ q \in DOMAIN questions'
                 /\ questions'[q].status = PENDING
                 /\ questions'[q].answer = None
                 /\ questions'[q].question = req.text
                 /\ questions'[q].document_id = req.document_id
                 /\ req.document_id \in DOMAIN documents'
                 /\ q \in DOMAIN background_tasks'
                 /\ background_tasks'[q] \in DOMAIN tasks'
                 /\ tasks'[background_tasks'[q]].question_id = q
                 /\ tasks'[background_tasks'[q]].pc = "sleep"]_vars

\* A submit has just returned 201 and its unit waits in its delay.
C7_Witness ==
    /\ response.op = "submit"
    /\ response.code = HTTP_201_CREATED
    /\ \E q \in DOMAIN background_tasks :
           /\ q \in DOMAIN questions
           /\ questions[q].status = PENDING
           /\ tasks[background_tasks[q]].pc = "sleep"

\* C8: a delete_question on an id with no Question answers 404 and changes
\* nothing: no step takes up the deletion of a missing Question, and the
\* step that answers 404 names a missing Question and leaves the Questions,
\* the tasks (none cancelled), the registry and the requests as they were.
C8_DeleteUnknownQuestion ==
    [][/\ \A req \in BagToSet(requests') :
              (req.op = "delete" /\ CopiesIn(req, requests') > CopiesIn(req, requests))
                  => req.question_id \in DOMAIN questions
       /\ (response' # response /\ response'.op = "delete"
              /\ response'.code = HTTP_404_NOT_FOUND)
              => /\ response'.detail \notin DOMAIN questions
                 /\ UNCHANGED <<documents, questions, nextQuestionId,
                                background_tasks, tasks, requests, deleted>>]_vars

\* A 404 for the delete of a Question that is gone while its unit is still
\* registered and running.
C8_Witness ==
    /\ response.op = "delete"
    /\ response.code = HTTP_404_NOT_FOUND
    /\ response.detail \in DOMAIN background_tasks
    /\ response.detail \notin DOMAIN questions
    /\ background_tasks[response.detail] \in DOMAIN tasks

\* The text of an uploaded .txt file, when upload-file has handled one whose
\* bytes decode to text that is not blank.
UploadedText == Utf8Decode(upload.file_content).text

TxtUploadHandled ==
    /\ upload.pc = "done"
    /\ EndsWith(upload.filename, DotTxt)
    /\ Utf8Decode(upload.file_content).ok
    /\ \E i \in 1..Len(UploadedText) : ~IsSpace(UploadedText[i])

\* The text between its first and its last character that is not whitespace.
Trimmed(text) ==
    LET inner == {i \in 1..Len(text) : ~IsSpace(text[i])}
        first == CHOOSE i \in inner : \A j \in inner : i <= j
        last == CHOOSE i \in inner : \A j \in inner : j <= i
    IN  SubSeq(text, first, last)

\* C9 as stated: for a .txt file whose bytes decode as UTF-8 to non-blank
\* text, upload-file creates a Document whose content is the decoded text
\* unchanged, leading and trailing whitespace included.
C9_TxtContentVerbatim ==
    TxtUploadHandled
        => /\ response = Respond("upload_file", HTTP_201_CREATED, 0)
           /\ upload.document_id \in DOMAIN documents
           /\ documents[upload.document_id].content = UploadedText

\* C9 amended: for a .txt file whose bytes decode as UTF-8 to non-blank text,
\* upload-file creates a Document whose content is the decoded text without
\* its leading and trailing whitespace; the text in between is unchanged.
C9_TxtContentStripped ==
    TxtUploadHandled
        => /\ response = Respond("upload_file", HTTP_201_CREATED, 0)
           /\ upload.document_id \in DOMAIN documents
           /\ documents[upload.document_id].title = upload.title
           /\ documents[upload.document_id].content = Trimmed(UploadedText)

\* A .txt upload whose decoded text has whitespace at both ends and a
\* two-byte character, stored without them.
C9_Witness ==
    /\ TxtUploadHandled
    /\ IsSpace(UploadedText[1])
    /\ IsSpace(UploadedText[Len(UploadedText)])
    /\ Len(UploadedText) < Len(upload.file_content)
    /\ upload.document_id \in DOMAIN documents
    /\ documents[upload.document_id].content # UploadedText

\* C10 as stated: every id in the in-flight registry refers to a Question
\* that exists and is PENDING.
C10_RegisteredIsPending ==
    \A q \in DOMAIN background_tasks :
        /\ q \in DOMAIN questions
        /\ questions[q].status = PENDING

\* C11: a background unit that ends, by whatever path (answer committed,
\* Question found deleted, failure and second pass, cancellation by
\* delete_question), leaves no registry entry for its Question id; every
\* registry entry therefore belongs to a unit that has not ended, and once
\* no unit is running the registry is empty.
C11_TerminatedUnitUnregistered ==
    /\ [][\A t \in DOMAIN tasks \ DOMAIN tasks' :
             tasks[t].question_id \notin DOMAIN background_tasks']_vars
    /\ [](/\ \A q \in DOMAIN background_tasks :
                 /\ background_tasks[q] \in DOMAIN tasks
                 /\ tasks[background_tasks[q]].question_id = q
          /\ (DOMAIN tasks = {} => DOMAIN background_tasks = {}))

\* Every unit has ended and the registry is empty: one unit answered its
\* Question, one went through the second pass, and no request is in flight
\* that could have cancelled either.
C11_Witness ==
    /\ DOMAIN tasks = {}
    /\ DOMAIN background_tasks = {}
    /\ requests = EmptyBag
    /\ deleted = {}
    /\ \E q1 \in DOMAIN questions, q2 \in DOMAIN questions :
           /\ questions[q1].status = ANSWERED
           /\ questions[q2].status = ERROR

\* C12: a unit whose update sequence failed and whose second pass succeeded
\* ends with its Question, if the row exists, in status ERROR; a unit whose
\* second pass failed as well ends with the Question still PENDING and
\* unanswered.  In both cases the failure stays inside the unit: its next
\* step is its normal end, and that step sends no response to any client.
C12_FailureEndsInError ==
    /\ [][\A t \in DOMAIN tasks \ DOMAIN tasks' :
             LET q == tasks[t].question_id IN
             /\ (tasks[t].pc = "error_close" /\ q \in DOMAIN questions')
                    => questions'[q].status = ERROR
             /\ (tasks[t].pc = "error_logged" /\ q \in DOMAIN questions')
                    => /\ questions'[q].status = PENDING
                       /\ questions'[q].answer = None
             /\ tasks[t].pc \in {"error_close", "error_logged"}
                    => response' = NoResponse]_vars
    /\ [](\A t \in DOMAIN tasks :
             tasks[t].pc \in {"error_close", "error_logged"}
                 => /\ tasks[t].failed
                    /\ ENABLED UnitClose(t))

\* One unit is about to end after its second pass failed, its Question still
\* PENDING; another has ended after a second pass that set ERROR.
C12_Witness ==
    \E t \in DOMAIN tasks, q2 \in DOMAIN questions :
        /\ tasks[t].pc = "error_logged"
        /\ tasks[t].question_id \in DOMAIN questions
        /\ questions[tasks[t].question_id].status = PENDING
        /\ questions[q2].status = ERROR
        /\ UnitsOf(q2) = {}
        /\ q2 \notin DOMAIN background_tasks

\* C13: when delete_question(q) passes its lookup while a unit is registered
\* for q, that same step cancels the unit and removes the entry, and the row
\* is still there: it is deleted only by a later step of that request.  A
\* unit cancelled in its delay has written nothing and writes nothing: until
\* the delete commits the row, if still present, is PENDING and unanswered,
\* no unit of q is alive and q stays out of the registry.
C13_CancelBeforeDelete ==
    /\ [][/\ \A q \in DOMAIN background_tasks :
                (\E req \in BagToSet(requests') :
                    /\ req.op = "delete" /\ req.question_id = q
                    /\ CopiesIn(req, requests') > CopiesIn(req, requests))
                    => /\ q \notin DOMAIN background_tasks'
                       /\ background_tasks[q] \notin DOMAIN tasks'
                       /\ \A t \in DOMAIN tasks' : tasks'[t].question_id # q
                       /\ q \in DOMAIN questions'
                       /\ questions' = questions
          /\ \A q \in DOMAIN questions \ DOMAIN questions' :
                \E req \in BagToSet(requests) :
                    /\ req.op = "delete" /\ req.question_id = q
                    /\ Finished(req)]_vars
    /\ [](\A req \in InFlight :
             (req.op = "delete" /\ req.cancelled = "delay")
                 => LET q == req.question_id IN
                    /\ q \notin DOMAIN background_tasks
                    /\ UnitsOf(q) = {}
                    /\ q \in DOMAIN questions
                           => /\ questions[q].status = PENDING
                              /\ questions[q].answer = None)

\* A delete has cancelled a unit in its delay and has not committed yet: the
\* row is there, untouched, while the unit of another Question runs on.
C13_Witness ==
    \E req \in InFlight :
        /\ req.op = "delete" /\ req.cancelled = "delay"
        /\ req.question_id \in DOMAIN questions
        /\ questions[req.question_id].status = PENDING
        /\ req.question_id \notin DOMAIN background_tasks
        /\ \E t \in DOMAIN tasks : tasks[t].pc # "sleep"

=============================================================================
